---------------------------- MODULE Spec2Model ----------------------------
(***************************************************************************)
(* pangLB health server (main.go): the two check providers, the /healthz   *)
(* aggregation, the ServeMux routing, startup (configuration, listener,    *)
(* protocol selection) and the signal-triggered shutdown.                  *)
(*                                                                         *)
(* Marker ages and MAX_AGE are counted in one abstract time unit, query    *)
(* durations and SYSTEMD_TIMEOUT in another; the two are never compared.   *)
(* The marker file, the unit and the query duration are external to the    *)
(* process: every poll reads them afresh, so they are inputs of the        *)
(* handler step and are recorded with the response it produced.            *)
(***************************************************************************)
EXTENDS Integers, Sequences, FiniteSets, TLC

VARIABLES
    pc,           \* position of the main goroutine in main()
    env,          \* the process environment (os.Getenv), fixed at exec
    tls,          \* what the startup found at the TLS paths
    cfg,          \* the locals of main() resolved in lines 99-110
    proto,        \* "none" | "http" | "https": which accept loop was entered
    stop,         \* number of signals buffered in the channel `stop`
    sd,           \* position of the shutdown goroutine
    inShutdown,   \* srv.Shutdown has been called (listeners closed)
    graceExpired, \* the 5 s context of line 170 has expired
    serveErr,     \* the error Serve/ServeTLS returned to main
    exitCode,     \* -1 while running, else the exit status
    exitCause,    \* which log.Fatal ended the process
    conn,         \* how many requests are in flight, marked, aborted
    lastResp,     \* the most recent response written by a handler
    call          \* last direct call of a check provider (SpecChecks)

vars == <<pc, env, tls, cfg, proto, stop, sd, inShutdown, graceExpired,
          serveErr, exitCode, exitCause, conn, lastResp, call>>

----------------------------------------------------------------------------
(* Bounds of the model. *)

MaxReq == 1         \* requests in flight at once
MaxAgeObs == 3      \* the age of a stale marker seen by the server's polls
MaxDur == 2         \* query durations 0..MaxDur seen by the server's polls
MaxNow == 3         \* clock and mtime range of the direct provider calls
MaxTimeoutArg == 2  \* timeouts 0..MaxTimeoutArg of the direct provider calls

(* Program constants. *)

DefaultMaxAge == 2          \* 2*time.Minute, in marker time units
DefaultSystemdTimeout == 1  \* 1*time.Second, in query time units
StopCap == 2                \* make(chan os.Signal, 2)
StatusOK == 200
StatusServiceUnavailable == 503

----------------------------------------------------------------------------
(* Environment values.  A string is a sequence of one-character strings.   *)

Lower(c) ==
    CASE c = "T" -> "t" [] c = "R" -> "r" [] c = "U" -> "u" [] c = "E" -> "e"
      [] c = "O" -> "o" [] c = "N" -> "n" [] c = "Y" -> "y" [] c = "S" -> "s"
      [] OTHER -> c

ToLower(s) == [i \in 1..Len(s) |-> Lower(s[i])]

IsSpace(c) == c \in {" ", "\t", "\n"}

RECURSIVE TrimLeft(_)
TrimLeft(s) ==
    IF s # <<>> /\ IsSpace(Head(s)) THEN TrimLeft(Tail(s)) ELSE s

RECURSIVE TrimRight(_)
TrimRight(s) ==
    IF s # <<>> /\ IsSpace(s[Len(s)])
    THEN TrimRight(SubSeq(s, 1, Len(s) - 1))
    ELSE s

TrimSpace(s) == TrimRight(TrimLeft(s))

parseBoolEnv(raw, d) ==
    LET v == TrimSpace(ToLower(raw)) IN
    IF v = <<>> THEN d
    ELSE \/ v = <<"1">>
         \/ v = <<"t", "r", "u", "e">>
         \/ v = <<"y", "e", "s">>
         \/ v = <<"o", "n">>

(* A duration variable is unset, set to text time.ParseDuration rejects,   *)
(* or set to a duration.                                                   *)
DurUnset == [set |-> FALSE, valid |-> FALSE, val |-> 0]
DurJunk == [set |-> TRUE, valid |-> FALSE, val |-> 0]
DurOf(n) == [set |-> TRUE, valid |-> TRUE, val |-> n]

parseDurationEnv(v, d) ==
    IF ~v.set THEN d
    ELSE IF ~v.valid THEN d
    ELSE v.val

BoolEnvVals == { <<>>, <<" ", "O", "N", " ">> }

MaxAgeEnvVals == {DurUnset, DurOf(0)}
TimeoutEnvVals == {DurUnset}

(* What os.Stat finds at a TLS path, and whether the two files load as an  *)
(* X.509 key pair.                                                         *)
StatResults == {"missing", "present"}
PairResults == {"bad", "good"}

----------------------------------------------------------------------------
(* Check providers. *)

Detail(ok, msg) == [ok |-> ok, message |-> msg]

MarkerKinds == {"missing", "staterr", "dir", "file"}

checkHealthFileStaleAtEqual(kind, age, maxAge) ==
    IF kind = "missing" THEN Detail(FALSE, "health file missing")
    ELSE IF kind = "staterr" THEN Detail(FALSE, "stat error: ...")
    ELSE IF kind = "dir" THEN Detail(FALSE, "health file path is a directory")
    ELSE IF maxAge > 0 /\ age >= maxAge
         THEN Detail(FALSE, "health file too old: ...")
    ELSE Detail(TRUE, "present")

(* kind is what os.Stat(path) yields, age is time.Since(fi.ModTime()). *)
checkHealthFile(kind, age, maxAge) ==
    IF kind = "missing" THEN Detail(FALSE, "health file missing")
    ELSE IF kind = "staterr" THEN Detail(FALSE, "stat error: ...")
    ELSE IF kind = "dir" THEN Detail(FALSE, "health file path is a directory")
    ELSE IF maxAge > 0 /\ age > maxAge
         THEN Detail(FALSE, "health file too old: ...")
    ELSE Detail(TRUE, "present")

UnitStates == {"active", "inactive", "absent", "nomanager"}

(* cmd.Run() under context.WithTimeout(timeout): "nil" (exit status 0),    *)
(* "exit" (non-zero exit or systemctl not found) or "killed" (the context  *)
(* ended the query).  A missing systemctl binary fails the start at once;  *)
(* a context that is already done fails it too; a query that runs longer   *)
(* than the timeout is killed; one that ends exactly at the deadline races *)
(* with the kill (killFirst).                                              *)
cmdRun(unit, dur, killFirst, timeout) ==
    IF unit = "nomanager" THEN "exit"
    ELSE IF timeout <= 0 THEN "killed"
    ELSE IF dur > timeout \/ (dur = timeout /\ killFirst) THEN "killed"
    ELSE IF unit = "active" THEN "nil"
    ELSE "exit"

(* ctx.Err() read after cmd.Run() returned. *)
ctxDeadlineExceeded(run, timeout) == timeout <= 0 \/ run = "killed"

checkSystemdNoDeadlineTest(unit, dur, killFirst, timeout) ==
    LET run == cmdRun(unit, dur, killFirst, timeout) IN
    IF run = "nil" THEN Detail(TRUE, "active")
    ELSE Detail(FALSE, "not active")

checkSystemd(unit, dur, killFirst, timeout) ==
    LET run == cmdRun(unit, dur, killFirst, timeout) IN
    IF run = "nil" THEN Detail(TRUE, "active")
    ELSE IF ctxDeadlineExceeded(run, timeout)
         THEN Detail(FALSE, "systemctl timeout")
    ELSE Detail(FALSE, "not active")


----------------------------------------------------------------------------
(* Routing and handlers. *)

(* A URL path is its sequence of segments: "/" is <<>>, "/healthz" is      *)
(* <<"healthz">>, "/healthz/" is <<"healthz", "">>.                        *)
PathRoot == <<>>
PathHealthz == <<"healthz">>
Paths == {PathRoot, PathHealthz, <<"healthz", "">>, <<"status">>}

(* The patterns registered on the ServeMux.  A pattern ending in "/" names *)
(* a subtree, any other pattern names exactly one path.                    *)
patterns ==
    { [segs |-> <<"healthz">>, subtree |-> FALSE, handler |-> "healthz"],
      [segs |-> <<>>, subtree |-> TRUE, handler |-> "root"] }

IsPrefix(s, t) == Len(s) <= Len(t) /\ SubSeq(t, 1, Len(s)) = s

Matches(p, path) == IF p.subtree THEN IsPrefix(p.segs, path) ELSE p.segs = path

(* ServeMux: the longest matching pattern wins, no match is NotFound. *)
Route(path) ==
    LET ms == {p \in patterns : Matches(p, path)} IN
    IF ms = {} THEN "notfound"
    ELSE (CHOOSE p \in ms : \A q \in ms : Len(q.segs) <= Len(p.segs)).handler

CtJSON == "application/json"
CtSniffed == "text/plain; charset=utf-8"

(* The Content-Type the client receives.  atCommit is the handler's header *)
(* map entry when WriteHeader was called, late the entry at the first body *)
(* write; lateSeen says whether the connection still reads the map after   *)
(* WriteHeader, which http.ResponseWriter does not promise.  With no entry *)
(* the type is sniffed from the body.                                      *)
SentContentType(atCommit, late, lateSeen) ==
    IF atCommit # "" THEN atCommit
    ELSE IF lateSeen /\ late # "" THEN late
    ELSE CtSniffed

NoChecks == [n \in {} |-> Detail(FALSE, "")]

StatusForAlwaysOK(overall) == StatusOK

StatusFor(overall) == IF overall THEN StatusOK ELSE StatusServiceUnavailable

AggregateAlwaysSystemd(enableSystemd, file, sys) ==
    [ok |-> file.ok /\ sys.ok,
     checks |-> ("newt_health_file" :> file) @@ ("systemd" :> sys),
     ranSystemd |-> TRUE]

(* Lines 115-131: the checks map and the overall verdict. *)
Aggregate(enableSystemd, file, sys) ==
    IF enableSystemd
    THEN [ok |-> file.ok /\ sys.ok,
          checks |-> ("newt_health_file" :> file) @@ ("systemd" :> sys),
          ranSystemd |-> TRUE]
    ELSE [ok |-> file.ok,
          checks |-> ("newt_health_file" :> file),
          ranSystemd |-> FALSE]

(* The /healthz handler: WriteHeader(status), then Header().Set, then the  *)
(* JSON body.  res.Now is left out of the body.                            *)
healthzHandler(c, kind, age, unit, dur, killFirst, lateSeen) ==
    LET file == checkHealthFile(kind, age, c.maxAge)
        sys == checkSystemd(unit, dur, killFirst, c.systemdTimeout)
        res == Aggregate(c.enableSystemd, file, sys)
    IN  [handler |-> "healthz",
         status |-> StatusFor(res.ok),
         ctAtCommit |-> "",
         ctype |-> SentContentType("", CtJSON, lateSeen),
         body |-> "json",
         ok |-> res.ok,
         checks |-> res.checks,
         ranCheck |-> TRUE,
         ranSystemd |-> res.ranSystemd]

rootHandlerNoBody ==
    [handler |-> "root", status |-> StatusOK, ctAtCommit |-> "",
     ctype |-> CtSniffed, body |-> "", ok |-> FALSE, checks |-> NoChecks,
     ranCheck |-> FALSE, ranSystemd |-> FALSE]

(* The "/" handler: WriteHeader(200), Write("ok\n"). *)
rootHandler ==
    [handler |-> "root", status |-> StatusOK, ctAtCommit |-> "",
     ctype |-> SentContentType("", "", FALSE), body |-> "ok\n", ok |-> FALSE,
     checks |-> NoChecks, ranCheck |-> FALSE, ranSystemd |-> FALSE]

(* http.NotFound, the ServeMux's answer when no pattern matches. *)
notFoundHandler ==
    [handler |-> "notfound", status |-> 404, ctAtCommit |-> CtSniffed,
     ctype |-> CtSniffed, body |-> "404 page not found\n", ok |-> FALSE,
     checks |-> NoChecks, ranCheck |-> FALSE, ranSystemd |-> FALSE]

ServeHTTP(c, path, kind, age, unit, dur, killFirst, lateSeen) ==
    LET h == Route(path) IN
    IF h = "healthz"
    THEN healthzHandler(c, kind, age, unit, dur, killFirst, lateSeen)
    ELSE IF h = "root" THEN rootHandler
    ELSE notFoundHandler

----------------------------------------------------------------------------
(* State. *)

NoCfg ==
    [resolved |-> FALSE, maxAge |-> 0, certSet |-> FALSE, keySet |-> FALSE,
     enableSystemd |-> FALSE, systemdTimeout |-> 0]

NoResp ==
    [handler |-> "none", status |-> 0, ctAtCommit |-> "", ctype |-> "",
     body |-> "", ok |-> FALSE, checks |-> NoChecks, ranCheck |-> FALSE,
     ranSystemd |-> FALSE, path |-> <<>>, kind |-> "none", age |-> 0,
     unit |-> "none"]

NoCall ==
    [fn |-> "none", kind |-> "none", age |-> 0, maxAge |-> 0, unit |-> "none",
     dur |-> 0, killFirst |-> FALSE, timeout |-> 0, raw |-> <<>>,
     text |-> DurUnset, val |-> 0, out |-> Detail(FALSE, "")]

(* The connection goroutines run the same code and share nothing, so they  *)
(* are counted: active (in flight, accepted after any signal), marked (in  *)
(* flight since before the first signal), aborted and abortedMarked (cut   *)
(* off by the exit of the process).                                        *)
NoConn == [active |-> 0, marked |-> 0, aborted |-> 0, abortedMarked |-> 0]

InFlight == conn.active + conn.marked

(* TLS_CERT_FILE and TLS_KEY_FILE are kept as "is it non-empty". *)
Envs ==
    [CHECK_SYSTEMD : BoolEnvVals, MAX_AGE : MaxAgeEnvVals,
     SYSTEMD_TIMEOUT : TimeoutEnvVals, TLS_CERT_FILE : BOOLEAN,
     TLS_KEY_FILE : BOOLEAN]

NoTLS == [cert |-> "unseen", key |-> "unseen", pair |-> "unseen"]

Init ==
    /\ pc = "resolve"
    /\ env \in Envs
    /\ tls = NoTLS
    /\ cfg = NoCfg
    /\ proto = "none"
    /\ stop = 0
    /\ sd = "none"
    /\ inShutdown = FALSE
    /\ graceExpired = FALSE
    /\ serveErr = "none"
    /\ exitCode = -1
    /\ exitCause = "none"
    /\ conn = NoConn
    /\ lastResp = NoResp
    /\ call = NoCall

Running == exitCode = -1

(* os.Exit: every goroutine ends where it is. *)
Abort(c) ==
    [active |-> 0, marked |-> 0, aborted |-> c.active + c.marked,
     abortedMarked |-> c.marked]

(* log.Fatal / log.Fatalf. *)
Fatal(cause) ==
    /\ pc' = "exited"
    /\ exitCode' = 1
    /\ exitCause' = cause
    /\ conn' = Abort(conn)

----------------------------------------------------------------------------
(* Startup. *)

(* Lines 99-110. *)
ResolveConfig ==
    /\ pc = "resolve"
    /\ cfg' = [resolved |-> TRUE,
               maxAge |-> parseDurationEnv(env.MAX_AGE, DefaultMaxAge),
               certSet |-> env.TLS_CERT_FILE,
               keySet |-> env.TLS_KEY_FILE,
               enableSystemd |-> parseBoolEnv(env.CHECK_SYSTEMD, FALSE),
               systemdTimeout |->
                   parseDurationEnv(env.SYSTEMD_TIMEOUT, DefaultSystemdTimeout)]
    /\ pc' = "listen"
    /\ UNCHANGED <<env, tls, proto, stop, sd, inShutdown, graceExpired, serveErr,
                   exitCode, exitCause, conn, lastResp, call>>

(* Lines 158-161. *)
Listen ==
    /\ pc = "listen"
    /\ \E bound \in BOOLEAN :
         IF bound
         THEN /\ pc' = "notify"
              /\ UNCHANGED <<exitCode, exitCause, conn>>
         ELSE Fatal("listen failed")
    /\ UNCHANGED <<env, tls, cfg, proto, stop, sd, inShutdown, graceExpired,
                   serveErr, lastResp, call>>

(* Lines 166-173: signal.Notify and the start of the shutdown goroutine. *)
Notify ==
    /\ pc = "notify"
    /\ pc' = "select"
    /\ sd' = "waiting"
    /\ UNCHANGED <<env, tls, cfg, proto, stop, inShutdown, graceExpired,
                   serveErr, exitCode, exitCause, conn, lastResp, call>>

UseTLSEither(certSet, keySet) == certSet \/ keySet

(* Line 176. *)
UseTLS(certSet, keySet) == certSet /\ keySet

(* Lines 177-179. *)
StatCert ==
    /\ pc = "select"
    /\ UseTLS(cfg.certSet, cfg.keySet)
    /\ \E st \in StatResults :
         /\ tls' = [tls EXCEPT !.cert = st]
         /\ IF st = "present"
            THEN /\ pc' = "statKey"
                 /\ UNCHANGED <<exitCode, exitCause, conn>>
            ELSE Fatal("cert file invalid")
    /\ UNCHANGED <<env, cfg, proto, stop, sd, inShutdown, graceExpired,
                   serveErr, lastResp, call>>

(* Lines 180-182. *)
StatKey ==
    /\ pc = "statKey"
    /\ \E st \in StatResults :
         /\ tls' = [tls EXCEPT !.key = st]
         /\ IF st = "present"
            THEN /\ pc' = "serveTLS"
                 /\ UNCHANGED <<exitCode, exitCause, conn>>
            ELSE Fatal("key file invalid")
    /\ UNCHANGED <<env, cfg, proto, stop, sd, inShutdown, graceExpired,
                   serveErr, lastResp, call>>

(* Line 183, srv.ServeTLS: load the key pair, then Serve on the TLS        *)
(* listener.  Serve refuses with ErrServerClosed once Shutdown was called. *)
ServeTLS ==
    /\ pc = "serveTLS"
    /\ \E pair \in PairResults :
         /\ tls' = [tls EXCEPT !.pair = pair]
         /\ IF pair = "bad"
            THEN /\ pc' = "fatal"
                 /\ serveErr' = "tls: failed to load key pair"
                 /\ proto' = proto
            ELSE IF inShutdown
            THEN /\ pc' = "fatal"
                 /\ serveErr' = "http: Server closed"
                 /\ proto' = proto
            ELSE /\ pc' = "serving"
                 /\ proto' = "https"
                 /\ serveErr' = serveErr
    /\ UNCHANGED <<env, cfg, stop, sd, inShutdown, graceExpired,
                   exitCode, exitCause, conn, lastResp, call>>

(* Line 185, srv.Serve. *)
ServePlain ==
    /\ pc = "select"
    /\ ~UseTLS(cfg.certSet, cfg.keySet)
    /\ IF inShutdown
       THEN /\ pc' = "fatal"
            /\ serveErr' = "http: Server closed"
            /\ proto' = proto
       ELSE /\ pc' = "serving"
            /\ proto' = "http"
            /\ serveErr' = serveErr
    /\ UNCHANGED <<env, tls, cfg, stop, sd, inShutdown, graceExpired,
                   exitCode, exitCause, conn, lastResp, call>>

----------------------------------------------------------------------------
(* Requests. *)

(* The accept loop of Serve takes a connection and starts its goroutine. *)
Accept ==
    /\ pc = "serving"
    /\ ~inShutdown
    /\ InFlight < MaxReq
    /\ conn' = [conn EXCEPT !.active = @ + 1]
    /\ UNCHANGED <<pc, env, tls, cfg, proto, stop, sd, inShutdown, graceExpired,
                   serveErr, exitCode, exitCause, lastResp, call>>

(* What a poll can find.  An age is read only off an existing entry; a    *)
(* query has a duration only when it is started; the race at the deadline  *)
(* exists only for a query ending exactly then.                            *)
MarkerAges(kind) == IF kind = "file" THEN {0, MaxAgeObs} ELSE {0}

QueryDurs(ran, unit) == IF ran /\ unit # "nomanager" THEN 0..MaxDur ELSE {0}

KillRaces(ran, dur, timeout) == IF ran /\ dur = timeout THEN BOOLEAN ELSE {FALSE}

(* The polls meet every outcome class of the query; "absent" exits like    *)
(* "inactive" and is left to the direct calls.                             *)
PollUnits == {"active", "inactive", "nomanager"}

NoObs == [kind |-> "none", age |-> 0, unit |-> "none"]

(* The connection's goroutine routes the request and runs its handler. *)
Handle(wasMarked) ==
    /\ Running
    /\ IF wasMarked
       THEN conn.marked > 0 /\ conn' = [conn EXCEPT !.marked = @ - 1]
       ELSE conn.active > 0 /\ conn' = [conn EXCEPT !.active = @ - 1]
    /\ \E path \in Paths :
         IF Route(path) = "healthz"
         THEN \E kind \in MarkerKinds, unit \in PollUnits, lateSeen \in BOOLEAN :
              \E age \in MarkerAges(kind),
                 dur \in QueryDurs(cfg.enableSystemd, unit) :
              \E killFirst \in
                     KillRaces(cfg.enableSystemd, dur, cfg.systemdTimeout) :
                 lastResp' =
                     ServeHTTP(cfg, path, kind, age, unit, dur, killFirst,
                               lateSeen)
                     @@ [path |-> path, kind |-> kind, age |-> age,
                         unit |-> unit]
         ELSE lastResp' =
                  ServeHTTP(cfg, path, "none", 0, "none", 0, FALSE, FALSE)
                  @@ [path |-> path] @@ NoObs
    /\ UNCHANGED <<pc, env, tls, cfg, proto, stop, sd, inShutdown, graceExpired,
                   serveErr, exitCode, exitCause, call>>

----------------------------------------------------------------------------
(* Shutdown. *)

MarkInFlight(c) == [c EXCEPT !.active = 0, !.marked = c.marked + c.active]

(* SIGINT or SIGTERM is delivered to the channel; a full channel drops it. *)
Signal ==
    /\ Running
    /\ sd # "none"
    /\ stop < StopCap
    /\ stop' = stop + 1
    /\ conn' = IF sd = "waiting" /\ stop = 0
               THEN MarkInFlight(conn)
               ELSE conn
    /\ UNCHANGED <<pc, env, tls, cfg, proto, sd, inShutdown, graceExpired,
                   serveErr, exitCode, exitCause, lastResp, call>>

(* Lines 169-172: <-stop, then srv.Shutdown(ctx) closes the listener. *)
ShutdownBegin ==
    /\ Running
    /\ sd = "waiting"
    /\ stop > 0
    /\ stop' = stop - 1
    /\ sd' = "draining"
    /\ inShutdown' = TRUE
    /\ UNCHANGED <<pc, env, tls, cfg, proto, graceExpired, serveErr, exitCode,
                   exitCause, conn, lastResp, call>>

(* The 5 s context of line 170 expires. *)
GraceExpire ==
    /\ Running
    /\ sd = "draining"
    /\ ~graceExpired
    /\ graceExpired' = TRUE
    /\ UNCHANGED <<pc, env, tls, cfg, proto, stop, sd, inShutdown, serveErr,
                   exitCode, exitCause, conn, lastResp, call>>

(* srv.Shutdown returns once no connection is active or the context ended. *)
ShutdownReturn ==
    /\ Running
    /\ sd = "draining"
    /\ graceExpired \/ InFlight = 0
    /\ sd' = "returned"
    /\ UNCHANGED <<pc, env, tls, cfg, proto, stop, inShutdown, graceExpired,
                   serveErr, exitCode, exitCause, conn, lastResp, call>>

(* Serve's accept loop finds the listener closed and returns. *)
ServeReturns ==
    /\ pc = "serving"
    /\ inShutdown
    /\ pc' = "fatal"
    /\ serveErr' = "http: Server closed"
    /\ UNCHANGED <<env, tls, cfg, proto, stop, sd, inShutdown, graceExpired,
                   exitCode, exitCause, conn, lastResp, call>>

(* Lines 183/185: log.Fatal of whatever Serve/ServeTLS returned. *)
LogFatal ==
    /\ pc = "fatal"
    /\ Fatal(serveErr)
    /\ UNCHANGED <<env, tls, cfg, proto, stop, sd, inShutdown, graceExpired,
                   serveErr, lastResp, call>>

Next ==
    \/ ResolveConfig
    \/ Listen
    \/ Notify
    \/ StatCert
    \/ StatKey
    \/ ServeTLS
    \/ ServePlain
    \/ Accept
    \/ \E wasMarked \in BOOLEAN : Handle(wasMarked)
    \/ Signal
    \/ ShutdownBegin
    \/ GraceExpire
    \/ ShutdownReturn
    \/ ServeReturns
    \/ LogFatal

Spec == Init /\ [][Next]_vars

----------------------------------------------------------------------------
(* The check providers and parseBoolEnv called directly, over a wider      *)
(* range of arguments than the polls of Spec meet.  The server does not    *)
(* run; only `call` changes.                                               *)

DefaultEnv ==
    [CHECK_SYSTEMD |-> <<>>, MAX_AGE |-> DurUnset, SYSTEMD_TIMEOUT |-> DurUnset,
     TLS_CERT_FILE |-> FALSE, TLS_KEY_FILE |-> FALSE]

InitChecks == Init /\ env = DefaultEnv

ServerVars == <<pc, env, tls, cfg, proto, stop, sd, inShutdown, graceExpired,
                serveErr, exitCode, exitCause, conn, lastResp>>

(* The entry at the path has modification time mtime, the clock reads now; *)
(* a modification time ahead of the clock gives a negative age.            *)
CallCheckHealthFile ==
    /\ \E kind \in MarkerKinds, now \in 0..MaxNow, mtime \in 0..MaxNow,
          maxAge \in -1..MaxNow :
         call' = [NoCall EXCEPT !.fn = "checkHealthFile", !.kind = kind,
                                !.age = now - mtime, !.maxAge = maxAge,
                                !.out = checkHealthFile(kind, now - mtime, maxAge)]
    /\ UNCHANGED ServerVars

CallCheckSystemd ==
    /\ \E unit \in UnitStates, dur \in 0..(MaxTimeoutArg + 1),
          timeout \in -1..MaxTimeoutArg :
       \E killFirst \in KillRaces(unit # "nomanager", dur, timeout) :
         call' = [NoCall EXCEPT !.fn = "checkSystemd", !.unit = unit,
                                !.dur = dur, !.killFirst = killFirst,
                                !.timeout = timeout,
                                !.out = checkSystemd(unit, dur, killFirst, timeout)]
    /\ UNCHANGED ServerVars

BoolTexts ==
    { <<>>, <<" ", " ">>, <<"1">>, <<"0">>, <<"t", "r", "u", "e">>,
      <<"T", "r", "u", "E">>, <<" ", "y", "e", "s", "\n">>, <<"O", "n">>,
      <<"n", "o">>, <<"o", " ", "n">> }

CallParseBoolEnv ==
    /\ \E raw \in BoolTexts, d \in BOOLEAN :
         call' = [NoCall EXCEPT !.fn = "parseBoolEnv", !.raw = raw,
                                !.out = Detail(parseBoolEnv(raw, d), "")]
    /\ UNCHANGED ServerVars

DurTexts == {DurUnset, DurJunk} \cup {DurOf(n) : n \in -1..MaxNow}

CallParseDurationEnv ==
    /\ \E text \in DurTexts, d \in {DefaultMaxAge, DefaultSystemdTimeout} :
         call' = [NoCall EXCEPT !.fn = "parseDurationEnv", !.text = text,
                                !.val = parseDurationEnv(text, d)]
    /\ UNCHANGED ServerVars

NextChecks ==
    \/ CallCheckHealthFile
    \/ CallCheckSystemd
    \/ CallParseBoolEnv
    \/ CallParseDurationEnv

SpecChecks == InitChecks /\ [][NextChecks]_vars

----------------------------------------------------------------------------
(* Properties. *)

Polled == lastResp.handler = "healthz"

MarkerEntry == lastResp.checks["newt_health_file"]

EnabledChecks ==
    IF cfg.enableSystemd THEN {"newt_health_file", "systemd"}
    ELSE {"newt_health_file"}

(* C1: a /healthz poll answers 200 exactly when every enabled check is ok  *)
(* and 503 otherwise, whatever the configuration, the marker and the unit; *)
(* the "ok" field of the body is true exactly when the status is 200.      *)
C1_StatusIffAllChecksOK ==
    Polled =>
        /\ lastResp.status \in {StatusOK, StatusServiceUnavailable}
        /\ lastResp.status = StatusOK <=>
               \A n \in EnabledChecks :
                   n \in DOMAIN lastResp.checks /\ lastResp.checks[n].ok
        /\ lastResp.ok <=> lastResp.status = StatusOK
        /\ lastResp.kind # "file" => lastResp.status = StatusServiceUnavailable
        /\ cfg.enableSystemd /\ lastResp.unit # "active" =>
               lastResp.status = StatusServiceUnavailable

C1_Witness ==
    /\ Polled
    /\ cfg.enableSystemd
    /\ lastResp.status = StatusOK
    /\ lastResp.checks["systemd"].ok
    /\ MarkerEntry.ok

(* C2: a request in flight when the termination signal arrived is          *)
(* completed before the process ends, unless the grace period ran out.     *)
C2_InFlightCompletedBeforeExit ==
    pc = "exited" /\ ~graceExpired => conn.abortedMarked = 0

(* C3: GET / answers 200 with the body "ok\n" and runs no check, in every  *)
(* configuration.                                                          *)
C3_RootAlwaysOK ==
    lastResp.handler # "none" /\ lastResp.path = PathRoot =>
        /\ lastResp.handler = "root"
        /\ lastResp.status = StatusOK
        /\ lastResp.body = "ok\n"
        /\ ~lastResp.ranCheck
        /\ ~lastResp.ranSystemd

C3_Witness ==
    /\ lastResp.handler = "root"
    /\ lastResp.path = PathRoot
    /\ lastResp.status = StatusOK
    /\ cfg.enableSystemd

(* C4: a request for a path other than "/" and "/healthz" is answered      *)
(* with 404 by the ServeMux.                                               *)
C4_OtherPathsNotFound ==
    lastResp.handler # "none" /\ lastResp.path \notin {PathRoot, PathHealthz} =>
        lastResp.status = 404

(* C5: the checks map of a /healthz response always has the marker entry   *)
(* and has the "systemd" entry exactly when the service check is enabled;  *)
(* disabled, the query is not run and the verdict is the marker's ok,      *)
(* whatever the unit does; enabled, the verdict is the conjunction of the  *)
(* two entries.                                                            *)
C5_ChecksMapMatchesConfig ==
    Polled =>
        /\ "newt_health_file" \in DOMAIN lastResp.checks
        /\ "systemd" \in DOMAIN lastResp.checks <=> cfg.enableSystemd
        /\ DOMAIN lastResp.checks \subseteq {"newt_health_file", "systemd"}
        /\ ~cfg.enableSystemd =>
               ~lastResp.ranSystemd /\ lastResp.ok = MarkerEntry.ok
        /\ cfg.enableSystemd =>
               /\ lastResp.ranSystemd
               /\ lastResp.ok = (MarkerEntry.ok /\ lastResp.checks["systemd"].ok)

C5_Witness ==
    /\ Polled
    /\ ~cfg.enableSystemd
    /\ lastResp.unit = "inactive"
    /\ lastResp.ok
    /\ DOMAIN lastResp.checks = {"newt_health_file"}

FileCall == call.fn = "checkHealthFile"

(* C6: the marker check decides in the order missing, other stat error,    *)
(* directory (even a stale one), too old (maximum age positive and age     *)
(* strictly greater), else present; an age equal to the maximum, and any   *)
(* age under a maximum of zero or less, is present.                        *)
C6_MarkerCheckDecisionOrder ==
    FileCall =>
        /\ call.kind = "missing" => call.out = Detail(FALSE, "health file missing")
        /\ call.kind = "staterr" => call.out = Detail(FALSE, "stat error: ...")
        /\ call.kind = "dir" =>
               call.out = Detail(FALSE, "health file path is a directory")
        /\ call.kind = "file" /\ call.maxAge > 0 /\ call.age > call.maxAge =>
               call.out = Detail(FALSE, "health file too old: ...")
        /\ call.kind = "file" /\ (call.maxAge <= 0 \/ call.age <= call.maxAge) =>
               call.out = Detail(TRUE, "present")

C6_Witness ==
    /\ FileCall
    /\ call.kind = "file"
    /\ call.maxAge > 0
    /\ call.age = call.maxAge
    /\ call.out = Detail(TRUE, "present")

SysCall == call.fn = "checkSystemd"

(* The query ran past the timeout; a timeout of zero or less leaves no     *)
(* time for any query.                                                     *)
QueryLate ==
    call.timeout <= 0 \/ (call.unit # "nomanager" /\ call.dur > call.timeout)

(* The query ended before the timeout; a missing systemctl ends it at once. *)
QueryInTime ==
    call.timeout > 0 /\ (call.unit = "nomanager" \/ call.dur < call.timeout)

(* C7: the service check answers (true, "active") only for a unit reported *)
(* active, (false, "systemctl timeout") for a query that does not end      *)
(* within the timeout, which is never reported as active or not active,    *)
(* and (false, "not active") for every other outcome.                      *)
C7_ServiceCheckOutcomes ==
    SysCall =>
        /\ call.out \in { Detail(TRUE, "active"), Detail(FALSE, "not active"),
                          Detail(FALSE, "systemctl timeout") }
        /\ call.out.ok => call.unit = "active" /\ call.dur <= call.timeout
        /\ QueryLate => call.out = Detail(FALSE, "systemctl timeout")
        /\ QueryInTime /\ call.unit = "active" => call.out = Detail(TRUE, "active")
        /\ QueryInTime /\ call.unit # "active" =>
               call.out = Detail(FALSE, "not active")
        /\ call.out.message = "not active" => call.unit # "active"

C7_Witness ==
    /\ SysCall
    /\ call.unit = "active"
    /\ call.timeout > 0
    /\ call.dur > call.timeout
    /\ call.out = Detail(FALSE, "systemctl timeout")

StartupErrors ==
    {"listen failed", "cert file invalid", "key file invalid",
     "tls: failed to load key pair"}

(* C8: the process exits non-zero only because of a startup error; a       *)
(* shutdown started by a signal is not such an exit.                       *)
C8_NonZeroExitOnlyAtStartup ==
    exitCode > 0 => exitCause \in StartupErrors

(* C9: a /healthz response carries the JSON content type: the handler has  *)
(* set it in the header map when the status write commits the headers, so  *)
(* it is the content type the client receives.                             *)
C9_JSONContentTypeCommitted ==
    Polled => lastResp.ctAtCommit = CtJSON /\ lastResp.ctype = CtJSON

BothSet == env.TLS_CERT_FILE /\ env.TLS_KEY_FILE

BothExist == tls.cert = "present" /\ tls.key = "present"

Served == lastResp # NoResp

(* The process ended its startup without entering an accept loop, and not  *)
(* because a shutdown had been asked for.                                  *)
StartupFailed == pc \in {"fatal", "exited"} /\ proto = "none" /\ ~inShutdown

StartupOrder ==
    /\ pc # "resolve" => cfg.resolved
    /\ cfg.resolved =>
           cfg.certSet = env.TLS_CERT_FILE /\ cfg.keySet = env.TLS_KEY_FILE
    /\ proto # "none" \/ tls # NoTLS => sd # "none"
    /\ Served => proto # "none"
    /\ exitCause = "listen failed" => ~Served /\ proto = "none" /\ tls = NoTLS

(* C10 as stated: startup is ordered configuration, listener, protocol; a  *)
(* bind failure ends the process before any request; HTTPS is served if    *)
(* and only if both TLS paths are configured and both files exist; a       *)
(* missing file is fatal; with fewer than two paths plain HTTP is served.  *)
C10_HTTPSIffBothFilesExist ==
    /\ StartupOrder
    /\ proto = "https" => BothSet /\ BothExist
    /\ BothSet /\ BothExist => ~StartupFailed
    /\ BothSet /\ (tls.cert = "missing" \/ tls.key = "missing") =>
           ~Served /\ proto = "none"
    /\ ~BothSet => proto \in {"none", "http"}

C10_ProtocolSelectedState ==
    /\ StartupOrder
    /\ proto = "https" => BothSet /\ BothExist /\ tls.pair = "good"
    /\ BothSet /\ (tls.cert = "missing" \/ tls.key = "missing"
                   \/ tls.pair = "bad") =>
           /\ ~Served
           /\ proto = "none"
           /\ pc \in {"fatal", "exited"}
           /\ exitCode \in {-1, 1}
    /\ ~BothSet => proto \in {"none", "http"} /\ tls = NoTLS
    /\ pc = "serving" => proto = IF BothSet THEN "https" ELSE "http"

(* C10, amended: as stated, except that HTTPS is served only if both paths *)
(* are configured, both files exist and they load as a key pair; a pair    *)
(* that exists but does not load is fatal like a missing file.  The        *)
(* protocol, once chosen, never changes.                                   *)
C10_ProtocolSelection ==
    /\ []C10_ProtocolSelectedState
    /\ [][proto # "none" => proto' = proto]_vars

C10_Witness ==
    /\ BothSet
    /\ BothExist
    /\ tls.pair = "good"
    /\ proto = "https"
    /\ Served

=============================================================================
